---- MODULE Spec2Model ----
(***************************************************************************)
(* Model of the asynchronous document-processing pipeline of the           *)
(* text-dataset-api backend: the processing_jobs rows, the Celery queue    *)
(* of process_document messages and the workers running that task          *)
(* (app/workers/tasks/document_tasks.py, app/workers/celery_app.py,        *)
(* app/models/document.py), and the in-memory WebSocket registry           *)
(* (app/api/websocket/manager.py, app/api/websocket/routes.py).            *)
(*                                                                         *)
(* Two facts of the source shape the job half of the model:                *)
(*  - process_document line 54 reads JobStatus.IN_PROGRESS, and the enum   *)
(*    JobStatus (models/document.py 44-51) has no such member, so the      *)
(*    statement raises AttributeError before it assigns anything; control  *)
(*    goes to the except block at line 149 on every run that found its     *)
(*    job, and lines 58-147 are never executed;                            *)
(*  - websocket_manager.send_processing_update is a coroutine function and *)
(*    the (synchronous) task calls it without awaiting it, so the call     *)
(*    only builds a coroutine object: the worker sends no event.  In the   *)
(*    except block the argument job.progress is evaluated first, and       *)
(*    ProcessingJob has no attribute progress (the column is               *)
(*    progress_percentage), so that call is not even made when the job     *)
(*    was found.                                                           *)
(* The worker therefore never touches the registry, and the two halves     *)
(* share no state: SpecJobs and SpecWS run one half each over the same     *)
(* variables, Spec runs both.  SpecPublish (creating and publishing jobs), *)
(* SpecSubs (the subscription handlers), SpecEvents (one job with one      *)
(* connection of its user) and SpecMethods (the methods of ProcessingJob)  *)
(* run the actions of one concern each.  So do SpecText (process_text of   *)
(* app/services/processing/text_processor.py), SpecHeartbeat (the          *)
(* heartbeat task of a connection) and SpecLive (jobs from creation to     *)
(* their end), the last two under the fairness of the event loop and of    *)
(* the broker and its workers, and SpecRegister, SpecForgot and            *)
(* SpecSessions (accounts, sessions and refresh tokens of                  *)
(* app/services/auth/auth_service.py and app/api/v1/endpoints/auth.py).    *)
(***************************************************************************)
EXTENDS Integers, Sequences, FiniteSets, TLC

\* ------------------------------------------------------------------ bounds
NumJobs == 2
NumWorkers == 2
\* messages published for process_document over a run of the model
MaxMessages == 2
\* deliveries of a message to a worker over a run of the model
MaxDeliveries == 2
\* WebSocket objects (connections) of the web process
NumSockets == 2
\* users that connect
NumUsers == 1
\* job ids, chat session ids and room ids that are subscribed to
NumTargets == 1
\* broadcasts in flight at the same time
MaxBroadcasts == 2
\* subscribe messages handled over a run of the model
MaxSubscribes == 2
\* the sentences of a document's text
MaxSentences == 2
\* the words of a sentence
MaxWords == 2
\* POST /auth/register requests
NumRequests == 2
\* logins over a run of the model
MaxLogins == 2
\* calls of refresh_access_token over a run of the model
MaxRefreshes == 2

JobIds == 1..NumJobs
Workers == 1..NumWorkers
Sockets == 1..NumSockets
Users == 1..NumUsers
TargetIds == 1..NumTargets
Broadcasts == 1..MaxBroadcasts
Requests == 1..NumRequests
\* the cases of a forgot-password request
ForgotCases == {"missing", "existing", "raised"}

\* ------------------------------------------------------------ job records
\* class JobStatus(str, Enum): the member names and their values
JobStatus ==
    [QUEUED |-> "queued", RUNNING |-> "running", COMPLETED |-> "completed",
     FAILED |-> "failed", CANCELLED |-> "cancelled", RETRY |-> "retry"]

\* Column(Integer, default=3): max_retries of a job created without one
DefaultMaxRetries == 3

\* max_retries a job may be created with
MaxRetriesChoices == {0, DefaultMaxRetries}

\* a row of processing_jobs as its column defaults make it
\* (None is 0 for the timestamps and "" for the strings)
NewJob(mr) ==
    [exists |-> TRUE,
     status |-> JobStatus.QUEUED,
     progress_percentage |-> 0,
     started_at |-> 0,
     completed_at |-> 0,
     worker_id |-> 0,
     error_message |-> "",
     retry_count |-> 0,
     max_retries |-> mr]

\* no row with this id
NoJob == [NewJob(DefaultMaxRetries) EXCEPT !.exists = FALSE]

VARIABLES
    jobs,        \* the processing_jobs table: JobIds -> row
    epc,         \* per job, where the endpoint that creates it stands
    queue,       \* broker queue: JobIds -> number of process_document messages
    published,   \* messages published so far
    deliveries,  \* deliveries made so far
    wpc,         \* per worker, its position in process_document
    wjob,        \* per worker, the job_id argument of the task it runs
    wfound,      \* per worker, whether line 50 found the row (the local `job`)
    user_connections,  \* WebSocketManager: user_id -> active_connections
    room_connections,  \* room_id -> active_connections
    job_connections,   \* job_id -> active_connections
    chat_connections,  \* session_id -> active_connections
    connection_users,  \* websocket -> user_id
    heartbeat_tasks,   \* the websockets that have a heartbeat task
    sock,        \* per websocket, the state of the connection
    sockpc,      \* per websocket, where websocket_endpoint stands
    broadcasts,  \* the calls of ConnectionManager.broadcast in flight
    subscribes,  \* subscribe messages handled so far
    unsubscribe_errors,  \* the unsubscribe requests answered with an error
    status_result,  \* per job, what the last check_document_status returned
    percentage,  \* per job, the argument of the last update_progress call
    text_content,        \* the text extracted from the document's file
    processing_results,  \* what process_text returned for it
    heartbeat_ended,     \* the websockets whose heartbeat task has returned
    users,               \* the users table, a user's id is its row's index
    sessions,            \* the user_sessions table
    issued,              \* the refresh tokens created: token -> its "sub"
    reg,                 \* per POST /auth/register request, where it stands
    logins,              \* logins made so far
    forgot_responses,    \* the answers of POST /auth/forgot-password, by case
    refresh_result,      \* what the last refresh_access_token did
    refresh_calls        \* calls of refresh_access_token so far

\* datetime.utcnow(): a logical clock that ticks with every delivery, so the
\* writes of two runs that started at different times differ.  It is never 0,
\* which stands for None in the timestamp columns.
utcnow == deliveries + 1

jobVars == <<jobs, epc, queue, published, deliveries, wpc, wjob, wfound,
            status_result, percentage>>

wsVars == <<user_connections, room_connections, job_connections,
           chat_connections, connection_users, heartbeat_tasks, sock, sockpc,
           broadcasts, subscribes, unsubscribe_errors>>

textVars == <<text_content, processing_results>>

hbVars == <<heartbeat_ended>>

authVars == <<users, sessions, issued, reg, logins, forgot_responses,
             refresh_result, refresh_calls>>

auxVars == <<textVars, hbVars, authVars>>

vars == <<jobVars, wsVars, auxVars>>

\* ============================================================ the registry
\* dict operations: d[k] = v, del d[k]
Put(d, k, v) == [x \in DOMAIN d \cup {k} |-> IF x = k THEN v ELSE d[x]]

Del(d, k) == [x \in DOMAIN d \ {k} |-> d[x]]

Range(list) == {list[i] : i \in DOMAIN list}

\* list.remove(x): the first occurrence goes
ListRemove(list, x) ==
    LET i == CHOOSE n \in DOMAIN list :
                 list[n] = x /\ \A m \in 1..(n - 1) : list[m] # x
    IN  SubSeq(list, 1, i - 1) \o SubSeq(list, i + 1, Len(list))

\* ConnectionManager.connect on active_connections: await websocket.accept(),
\* then append; there is no membership test.  accepted = FALSE: accept()
\* raises and nothing is appended.
ConnectionManager_connect(list, ws, accepted) ==
    IF accepted THEN Append(list, ws) ELSE list

\* ConnectionManager.disconnect on active_connections
ConnectionManager_disconnect(list, ws) ==
    IF ws \in Range(list) THEN ListRemove(list, ws) ELSE list

Kinds == {"user", "job", "chat", "room"}

\* the dict of the WebSocketManager that holds the managers of a kind
Registry(kind) ==
    CASE kind = "user" -> user_connections
      [] kind = "job" -> job_connections
      [] kind = "chat" -> chat_connections
      [] kind = "room" -> room_connections

\* a slot of `broadcasts` with no call in it
NoBroadcast ==
    [pc |-> "free", kind |-> "user", id |-> 0, orphan |-> FALSE, owner |-> 0,
     idx |-> 0, cur |-> 0, disconnected |-> <<>>, delivered |-> <<>>,
     stayed |-> {}]

InFlight(b) == broadcasts[b].pc \in {"iter", "send"}

\* self.active_connections of the manager a broadcast runs on.  The call
\* holds the ConnectionManager object: once disconnect_user or leave_room has
\* deleted it from its dict (which they do only when its list is empty) the
\* object is an orphan, and stays empty.
ActiveConnections(b) ==
    IF broadcasts[b].orphan THEN <<>>
    ELSE Registry(broadcasts[b].kind)[broadcasts[b].id]

\* the broadcasts after the list of manager (kind, id) became newlist, the
\* manager being deleted from its dict or not: `stayed` keeps the connections
\* that have been on the list since the call began
Tracked(bs, kind, id, newlist, deleted) ==
    [b \in Broadcasts |->
        IF bs[b].pc \in {"iter", "send"} /\ bs[b].kind = kind
           /\ bs[b].id = id /\ ~bs[b].orphan
        THEN [bs[b] EXCEPT !.stayed = @ \cap Range(newlist),
                           !.orphan = deleted]
        ELSE bs[b]]

\* a call of broadcast on manager (kind, id), whose list is `list`, made by
\* the endpoint of websocket `owner` (0: by another caller)
NewBroadcast(kind, id, list, owner) ==
    [NoBroadcast EXCEPT !.pc = "iter", !.kind = kind, !.id = id,
                        !.owner = owner, !.stayed = Range(list)]

InitWS ==
    /\ user_connections = <<>>
    /\ room_connections = <<>>
    /\ job_connections = <<>>
    /\ chat_connections = <<>>
    /\ connection_users = <<>>
    /\ heartbeat_tasks = {}
    /\ sock = [s \in Sockets |-> "connecting"]
    /\ sockpc = [s \in Sockets |-> "new"]
    /\ broadcasts = [b \in Broadcasts |-> NoBroadcast]
    /\ subscribes = 0
    /\ unsubscribe_errors = {}

\* what check_document_status has returned for a job: nothing yet
NoResult == [outcome |-> "none", progress |-> 0]

\* ------------------------------------------------------------------ Init
InitJobs ==
    /\ jobs = [j \in JobIds |-> NoJob]
    /\ epc = [j \in JobIds |-> "none"]
    /\ queue = [j \in JobIds |-> 0]
    /\ published = 0
    /\ deliveries = 0
    /\ wpc = [w \in Workers |-> "idle"]
    /\ wjob = [w \in Workers |-> 0]
    /\ wfound = [w \in Workers |-> FALSE]
    /\ status_result = [j \in JobIds |-> NoResult]
    /\ percentage = [j \in JobIds |-> 0]

\* process_text has returned nothing yet
NoResults == [called |-> FALSE]

InitText ==
    /\ text_content = <<>>
    /\ processing_results = NoResults

InitHeartbeat == heartbeat_ended = {}

\* a register request that has not arrived yet
NoRequest == [pc |-> "new", email |-> "", status_code |-> 0, user |-> 0,
              session |-> 0]

\* no answer of forgot-password seen yet
NoResponse == [status_code |-> 0, success |-> FALSE, message |-> ""]

InitAuth ==
    /\ users = <<>>
    /\ sessions = <<>>
    /\ issued = <<>>
    /\ reg = [r \in Requests |-> NoRequest]
    /\ logins = 0
    /\ forgot_responses = [c \in ForgotCases |-> NoResponse]
    /\ refresh_result = [token |-> 0, outcome |-> "none"]
    /\ refresh_calls = 0

InitAux == InitText /\ InitHeartbeat /\ InitAuth

Init == InitJobs /\ InitWS /\ InitAux

\* ------------------------------------------------------- creating a job
\* document_service.create_processing_job, as process_document_endpoint,
\* upload_document and batch_process_documents_endpoint call it: a new row,
\* status Queued, written before anything is published
create_processing_job(j, mr) ==
    /\ epc[j] = "none"
    /\ jobs' = [jobs EXCEPT ![j] = NewJob(mr)]
    /\ epc' = [epc EXCEPT ![j] = "created"]
    /\ UNCHANGED <<queue, published, deliveries, wpc, wjob, wfound,
                 status_result, percentage, wsVars, auxVars>>

\* create_processing_job raises (the row could not be written): the
\* endpoint's `except Exception` answers 500 before it reaches apply_async
create_processing_job_fails(j) ==
    /\ epc[j] = "none"
    /\ epc' = [epc EXCEPT ![j] = "create failed"]
    /\ UNCHANGED <<jobs, queue, published, deliveries, wpc, wjob, wfound,
                   status_result, percentage, wsVars, auxVars>>

\* apply_async by an endpoint that publishes whether or not the row was
\* written
apply_async_unordered(j) ==
    /\ epc[j] \in {"none", "created", "create failed"}
    /\ published < MaxMessages
    /\ queue' = [queue EXCEPT ![j] = @ + 1]
    /\ published' = published + 1
    /\ epc' = [epc EXCEPT ![j] = "queued"]
    /\ UNCHANGED <<jobs, deliveries, wpc, wjob, wfound,
                   status_result, percentage, wsVars, auxVars>>

\* process_document.apply_async(args=[job.id, document.id, user_id], ...):
\* the endpoint publishes the message of the job it has just created
apply_async(j) ==
    /\ epc[j] = "created"
    /\ published < MaxMessages
    /\ queue' = [queue EXCEPT ![j] = @ + 1]
    /\ published' = published + 1
    /\ epc' = [epc EXCEPT ![j] = "queued"]
    /\ UNCHANGED <<jobs, deliveries, wpc, wjob, wfound,
                   status_result, percentage, wsVars, auxVars>>

\* apply_async raises (the broker is unreachable): the endpoint's
\* `except Exception` answers 500 and the row stays as it was written
apply_async_fails(j) ==
    /\ epc[j] = "created"
    /\ epc' = [epc EXCEPT ![j] = "error"]
    /\ UNCHANGED <<jobs, queue, published, deliveries, wpc, wjob, wfound,
                 status_result, percentage, wsVars, auxVars>>

\* batch_process_documents: one apply_async per (job_id, document_id) of an
\* existing job; the batch task is itself acknowledged late, so a batch that
\* is run again publishes the same job ids again
batch_process_documents(j) ==
    /\ epc[j] \in {"created", "queued"}
    /\ published < MaxMessages
    /\ queue' = [queue EXCEPT ![j] = @ + 1]
    /\ published' = published + 1
    /\ epc' = [epc EXCEPT ![j] = "queued"]
    /\ UNCHANGED <<jobs, deliveries, wpc, wjob, wfound,
                   status_result, percentage, wsVars, auxVars>>

\* cancelJob of the design: Queued|Running -> Cancelled.  No code under src/
\* writes JobStatus.CANCELLED; the request is taken from the specification.
cancel_job(j) ==
    /\ jobs[j].exists
    /\ jobs[j].status \in {JobStatus.QUEUED, JobStatus.RUNNING}
    /\ jobs' = [jobs EXCEPT ![j].status = JobStatus.CANCELLED]
    /\ UNCHANGED <<epc, queue, published, deliveries, wpc, wjob, wfound,
                 status_result, percentage, wsVars, auxVars>>

\* ------------------------------------------------------------ the worker
\* a worker takes a process_document message off the queue; with
\* task_acks_late the message stays unacknowledged while the task runs
deliver(w, j) ==
    /\ wpc[w] = "idle"
    /\ queue[j] > 0
    /\ deliveries < MaxDeliveries
    /\ queue' = [queue EXCEPT ![j] = @ - 1]
    /\ deliveries' = deliveries + 1
    /\ wpc' = [wpc EXCEPT ![w] = "line50"]
    /\ wjob' = [wjob EXCEPT ![w] = j]
    /\ wfound' = [wfound EXCEPT ![w] = FALSE]
    /\ UNCHANGED <<jobs, epc, published, status_result, percentage, wsVars,
                   auxVars>>

\* str(e) of the AttributeError of line 54
AttributeErrorMessage == "AttributeError: IN_PROGRESS"

\* process_document lines 46-56: load the row, then
\* job.status = JobStatus.IN_PROGRESS; job.started_at = utcnow(); commit.
\* The right-hand side is evaluated first: with no member IN_PROGRESS it
\* raises and nothing is assigned.  No test of the row's current status
\* precedes the assignment.
process_document_start(w) ==
    /\ wpc[w] = "line50"
    /\ LET j == wjob[w] IN
       IF ~jobs[j].exists
       THEN \* line 52: raise ValueError; `job` is None in the handler
            /\ wfound' = [wfound EXCEPT ![w] = FALSE]
            /\ wpc' = [wpc EXCEPT ![w] = "except"]
            /\ UNCHANGED jobs
       ELSE IF "IN_PROGRESS" \in DOMAIN JobStatus
       THEN /\ jobs' = [jobs EXCEPT ![j].status = JobStatus["IN_PROGRESS"],
                                    ![j].started_at = utcnow]
            /\ wfound' = [wfound EXCEPT ![w] = TRUE]
            /\ wpc' = [wpc EXCEPT ![w] = "line58"]
       ELSE \* line 54 raises AttributeError
            /\ wfound' = [wfound EXCEPT ![w] = TRUE]
            /\ wpc' = [wpc EXCEPT ![w] = "except"]
            /\ UNCHANGED jobs
    /\ UNCHANGED <<epc, queue, published, deliveries, wjob,
                   status_result, percentage, wsVars, auxVars>>

\* process_document_except as a handler that retries without consulting
\* can_retry: the failed job goes back to Queued and retry_count grows
process_document_except_retry(w) ==
    /\ wpc[w] = "except"
    /\ LET j == wjob[w] IN
       IF wfound[w]
       THEN /\ jobs' = [jobs EXCEPT ![j].status = JobStatus.QUEUED,
                                    ![j].retry_count = @ + 1,
                                    ![j].error_message = AttributeErrorMessage]
       ELSE UNCHANGED jobs
    /\ wpc' = [wpc EXCEPT ![w] = "ended"]
    /\ UNCHANGED <<epc, queue, published, deliveries, wjob, wfound,
                 status_result, percentage, wsVars, auxVars>>

\* process_document lines 149-168, the except block: if job: status FAILED,
\* error_message, completed_at, commit.  retry_count is not read or written,
\* nothing is published, and no event leaves the worker (the send is an
\* un-awaited coroutine call, and job.progress raises before it).  Then the
\* exception propagates to Celery.
process_document_except(w) ==
    /\ wpc[w] = "except"
    /\ LET j == wjob[w] IN
       IF wfound[w]
       THEN /\ jobs' = [jobs EXCEPT ![j].status = JobStatus.FAILED,
                                    ![j].error_message = AttributeErrorMessage,
                                    ![j].completed_at = utcnow]
       ELSE UNCHANGED jobs
    /\ wpc' = [wpc EXCEPT ![w] = "ended"]
    /\ UNCHANGED <<epc, queue, published, deliveries, wjob, wfound,
                 status_result, percentage, wsVars, auxVars>>

\* every apply_async of process_document under src/ passes job_id in args,
\* so kwargs.get("job_id") of BaseTask.on_failure is None
JobIdInKwargs == FALSE

\* the task has ended by raising: BaseTask.on_failure runs (it writes FAILED and
\* error_message only for a job_id found in kwargs), then the late
\* acknowledgement is sent.  No retry is requested anywhere (no autoretry_for,
\* no self.retry).  acked = FALSE: the acknowledgement is lost and the broker
\* delivers the message again.
on_failure(w, acked) ==
    /\ wpc[w] = "ended"
    /\ LET j == wjob[w] IN
       /\ jobs' = IF JobIdInKwargs /\ jobs[j].exists
                  THEN [jobs EXCEPT ![j].status = JobStatus.FAILED,
                                    ![j].error_message = AttributeErrorMessage]
                  ELSE jobs
       /\ queue' = IF acked THEN queue ELSE [queue EXCEPT ![j] = @ + 1]
    /\ wpc' = [wpc EXCEPT ![w] = "idle"]
    /\ wjob' = [wjob EXCEPT ![w] = 0]
    /\ wfound' = [wfound EXCEPT ![w] = FALSE]
    /\ UNCHANGED <<epc, published, deliveries, status_result,
                   percentage, wsVars, auxVars>>

\* the worker process dies while it runs the task: with task_acks_late and
\* task_reject_on_worker_lost the message goes back to the queue as it was;
\* the row is not touched
worker_lost(w) ==
    /\ wpc[w] # "idle"
    /\ queue' = [queue EXCEPT ![wjob[w]] = @ + 1]
    /\ wpc' = [wpc EXCEPT ![w] = "idle"]
    /\ wjob' = [wjob EXCEPT ![w] = 0]
    /\ wfound' = [wfound EXCEPT ![w] = FALSE]
    /\ UNCHANGED <<jobs, epc, published, deliveries, status_result,
                   percentage, wsVars, auxVars>>

\* ------------------------------------------------------------ the claims
\* worker w has loaded job j and is in, or through, the body of the task
Processing(w, j) ==
    /\ wjob[w] = j
    /\ wfound[w]
    /\ wpc[w] \in {"line58", "except", "ended"}

\* C1: for every job, no two workers are processing it in the same state
\* (of two deliveries of a Queued job one claims it and the other is rejected
\* with AlreadyClaimedError before it does anything).
C1_AtMostOneWorkerPerJob ==
    \A j \in JobIds : \A w1, w2 \in Workers :
        Processing(w1, j) /\ Processing(w2, j) => w1 = w2

\* the status changes of the job state machine
LifecycleTransitions ==
    {<<JobStatus.QUEUED, JobStatus.RUNNING>>,
     <<JobStatus.RUNNING, JobStatus.COMPLETED>>,
     <<JobStatus.RUNNING, JobStatus.FAILED>>,
     <<JobStatus.QUEUED, JobStatus.CANCELLED>>,
     <<JobStatus.RUNNING, JobStatus.CANCELLED>>,
     <<JobStatus.FAILED, JobStatus.QUEUED>>}

\* C2: every change of a job's status is one of Queued -> Running,
\* Running -> Completed, Running -> Failed, Queued|Running -> Cancelled and
\* Failed -> Queued, the last only while retry_count < max_retries.
C2_OnlyLifecycleTransitions ==
    [][\A j \in JobIds :
         (jobs[j].exists /\ jobs'[j].status # jobs[j].status) =>
            /\ <<jobs[j].status, jobs'[j].status>> \in LifecycleTransitions
            /\ (jobs[j].status = JobStatus.FAILED =>
                    jobs[j].retry_count < jobs[j].max_retries)]_vars

\* job j is Failed with its retries used up
Exhausted(j) ==
    /\ jobs[j].exists
    /\ jobs[j].status = JobStatus.FAILED
    /\ jobs[j].retry_count = jobs[j].max_retries

\* C3: retry_count <= max_retries in every state, and a job that is Failed
\* with retry_count = max_retries keeps the status Failed in every step.
C3_RetryBoundAndPermanentFailure ==
    /\ [](\A j \in JobIds : jobs[j].retry_count <= jobs[j].max_retries)
    /\ [][\A j \in JobIds :
            Exhausted(j) => jobs'[j].status = JobStatus.FAILED]_vars

\* C3 witness: an exhausted job was delivered again and the second run has
\* gone through its failure handler (the job's completed_at was written
\* twice, no other job's was written).
C3_Witness ==
    \E j \in JobIds, w \in Workers :
        /\ Exhausted(j)
        /\ wjob[w] = j /\ wpc[w] = "ended" /\ wfound[w]
        /\ jobs[j].completed_at >= 3
        /\ \A k \in JobIds \ {j} : jobs[k].completed_at = 0

\* C4: a run of process_document that found its job and met no error in
\* download, extraction or analysis (the model raises none) has ended with
\* the job Completed, completed_at set and progress complete.
C4_RunEndsCompleted ==
    \A w \in Workers :
        (wpc[w] = "ended" /\ wfound[w]) =>
            /\ jobs[wjob[w]].status = JobStatus.COMPLETED
            /\ jobs[wjob[w]].completed_at # 0
            /\ jobs[wjob[w]].progress_percentage = 100

\* C5: when a run ends on a job that an earlier run has already finished
\* (completed_at is set), the job is Completed afterwards and its
\* completed_at and progress are those of the first completion.
C5_SecondCompletionIsNoOp ==
    [][\A w \in Workers :
         (/\ wpc[w] = "except" /\ wpc'[w] = "ended" /\ wfound[w]
          /\ jobs[wjob[w]].completed_at # 0) =>
            /\ jobs'[wjob[w]].status = JobStatus.COMPLETED
            /\ jobs'[wjob[w]].completed_at = jobs[wjob[w]].completed_at
            /\ jobs'[wjob[w]].progress_percentage
                   = jobs[wjob[w]].progress_percentage]_vars

\* C6: when the failure handler of a run acts on a job with
\* retry_count < max_retries, the step leaves the job Queued with
\* retry_count one higher and no worker id, and one more message for the
\* job in the queue.
C6_FailureRequeues ==
    [][\A w \in Workers :
         (/\ wpc[w] = "except" /\ wpc'[w] = "ended" /\ wfound[w]
          /\ jobs[wjob[w]].retry_count < jobs[wjob[w]].max_retries) =>
            /\ jobs'[wjob[w]].status = JobStatus.QUEUED
            /\ jobs'[wjob[w]].retry_count = jobs[wjob[w]].retry_count + 1
            /\ jobs'[wjob[w]].worker_id = 0
            /\ queue'[wjob[w]] = queue[wjob[w]] + 1]_vars

\* C7: when a worker is lost in the middle of a run (it goes from inside the
\* task body to idle), the job is given back for another worker only while
\* retry_count < max_retries, and the recovery adds exactly 1 to
\* retry_count.
C7_CrashRecoveryCounted ==
    [][\A w \in Workers :
         (wpc[w] \in {"line58", "except"} /\ wfound[w] /\ wpc'[w] = "idle") =>
            /\ jobs[wjob[w]].retry_count < jobs[wjob[w]].max_retries
            /\ jobs'[wjob[w]].retry_count = jobs[wjob[w]].retry_count + 1]_vars

\* C8: a Cancelled job stays Cancelled: no worker step writes another status
\* over it.
C8_CancelledStaysCancelled ==
    [][\A j \in JobIds :
         (jobs[j].exists /\ jobs[j].status = JobStatus.CANCELLED) =>
            jobs'[j].status = JobStatus.CANCELLED]_vars


\* ------------------------------------------------------ registry operations
\* the dict of `kind` becomes d, the other three stay
SetRegistry(kind, d) ==
    /\ user_connections' = IF kind = "user" THEN d ELSE user_connections
    /\ job_connections' = IF kind = "job" THEN d ELSE job_connections
    /\ chat_connections' = IF kind = "chat" THEN d ELSE chat_connections
    /\ room_connections' = IF kind = "room" THEN d ELSE room_connections

\* active_connections of manager `id` in dict d, empty if there is none yet
ListIn(d, id) == IF id \in DOMAIN d THEN d[id] ELSE <<>>

\* websocket_endpoint lines 66-88 with WebSocketManager.connect_user: the
\* user's manager is created if missing, the websocket is accepted and
\* appended, connection_users and heartbeat_tasks get their entries, and the
\* connection confirmation is broadcast to the user's manager (slot b); the
\* endpoint waits for that broadcast.  accepted = FALSE: accept() raises, the
\* exception leaves connect_user and the endpoint, whose finally clause calls
\* disconnect_user on a websocket that connection_users does not know.
connect_user(s, u, b, accepted) ==
    /\ sockpc[s] = "new"
    /\ broadcasts[b].pc = "free"
    /\ LET list == ConnectionManager_connect(ListIn(user_connections, u), s, accepted)
       IN  /\ user_connections' = Put(user_connections, u, list)
           /\ IF accepted
              THEN /\ connection_users' = Put(connection_users, s, u)
                   /\ heartbeat_tasks' = heartbeat_tasks \cup {s}
                   /\ sock' = [sock EXCEPT ![s] = "connected"]
                   /\ sockpc' = [sockpc EXCEPT ![s] = "busy"]
                   /\ broadcasts' = [broadcasts EXCEPT
                                        ![b] = NewBroadcast("user", u, list, s)]
              ELSE /\ sock' = [sock EXCEPT ![s] = "closed"]
                   /\ sockpc' = [sockpc EXCEPT ![s] = "done"]
                   /\ UNCHANGED <<connection_users, heartbeat_tasks,
                                  broadcasts>>
    /\ UNCHANGED <<room_connections, job_connections, chat_connections,
                   subscribes, unsubscribe_errors, jobVars, auxVars>>

\* the client goes away (it closes, or the network drops): application_state
\* stays CONNECTED, a send to the websocket raises, and the next receive of
\* its endpoint raises WebSocketDisconnect
client_disconnects(s) ==
    /\ sock[s] = "connected"
    /\ sock' = [sock EXCEPT ![s] = "dropped"]
    /\ UNCHANGED <<user_connections, room_connections, job_connections,
                   chat_connections, connection_users, heartbeat_tasks,
                   sockpc, broadcasts, subscribes, unsubscribe_errors, jobVars,
                   auxVars>>

\* websocket_endpoint lines 137-157: receive raises WebSocketDisconnect, the
\* loop ends and the finally clause calls WebSocketManager.disconnect_user
\* (lines 117-138): the heartbeat task, the entry of the user's manager (and
\* the manager, if that leaves it empty) and the connection_users entry go.
\* room_connections, job_connections and chat_connections are not touched.
disconnect_user(s) ==
    /\ sockpc[s] = "loop"
    /\ sock[s] = "dropped"
    /\ IF s \in DOMAIN connection_users
       THEN LET u == connection_users[s]
                list == ConnectionManager_disconnect(ListIn(user_connections, u), s)
            IN  /\ heartbeat_tasks' = heartbeat_tasks \ {s}
                /\ IF u \in DOMAIN user_connections
                   THEN /\ user_connections' =
                              IF list = <<>> THEN Del(user_connections, u)
                              ELSE Put(user_connections, u, list)
                        /\ broadcasts' =
                              Tracked(broadcasts, "user", u, list, list = <<>>)
                   ELSE UNCHANGED <<user_connections, broadcasts>>
                /\ connection_users' = Del(connection_users, s)
       ELSE UNCHANGED <<heartbeat_tasks, user_connections, broadcasts,
                        connection_users>>
    /\ sock' = [sock EXCEPT ![s] = "closed"]
    /\ sockpc' = [sockpc EXCEPT ![s] = "done"]
    /\ UNCHANGED <<room_connections, job_connections, chat_connections,
                   subscribes, unsubscribe_errors, jobVars, auxVars>>

\* handle_subscription for a "subscribe" message of kind job, chat or room:
\* subscribe_to_job / subscribe_to_chat / join_room create the target's
\* manager if missing and call its connect (accept again, then append)
handle_subscription(s, kind, t, accepted) ==
    /\ sockpc[s] = "loop"
    /\ sock[s] = "connected"
    /\ kind \in {"job", "chat", "room"}
    /\ subscribes < MaxSubscribes
    /\ subscribes' = subscribes + 1
    /\ SetRegistry(kind, Put(Registry(kind), t,
            ConnectionManager_connect(ListIn(Registry(kind), t), s, accepted)))
    /\ UNCHANGED <<connection_users, heartbeat_tasks, sock, sockpc, broadcasts,
                   unsubscribe_errors, jobVars, auxVars>>

\* handle_unsubscription for a room (the only kind it serves): leave_room
\* removes the websocket from the room's manager and deletes a manager left
\* empty
handle_unsubscription(s, t) ==
    /\ sockpc[s] = "loop"
    /\ sock[s] = "connected"
    /\ t \in DOMAIN room_connections
    /\ LET list == ConnectionManager_disconnect(room_connections[t], s)
       IN  /\ room_connections' =
                 IF list = <<>> THEN Del(room_connections, t)
                 ELSE Put(room_connections, t, list)
           /\ broadcasts' = Tracked(broadcasts, "room", t, list, list = <<>>)
    /\ UNCHANGED <<user_connections, job_connections, chat_connections,
                   connection_users, heartbeat_tasks, sock, sockpc, subscribes,
                   unsubscribe_errors, jobVars, auxVars>>

\* send_to_user / send_job_update / send_to_room called by a coroutine that
\* is not one of the modelled endpoints: if the target has a manager, a
\* broadcast on it begins
publish(b, kind, t) ==
    /\ kind \in {"user", "job", "room"}
    /\ broadcasts[b].pc = "free"
    /\ t \in DOMAIN Registry(kind)
    /\ broadcasts' = [broadcasts EXCEPT
                         ![b] = NewBroadcast(kind, t, Registry(kind)[t], 0)]
    /\ UNCHANGED <<user_connections, room_connections, job_connections,
                   chat_connections, connection_users, heartbeat_tasks, sock,
                   sockpc, subscribes, unsubscribe_errors, jobVars, auxVars>>

\* handle_chat_message: the endpoint of websocket s awaits send_chat_message,
\* a broadcast on the session's manager
handle_chat_message(s, t, b) ==
    /\ sockpc[s] = "loop"
    /\ sock[s] = "connected"
    /\ broadcasts[b].pc = "free"
    /\ t \in DOMAIN chat_connections
    /\ broadcasts' = [broadcasts EXCEPT
                         ![b] = NewBroadcast("chat", t, chat_connections[t], s)]
    /\ sockpc' = [sockpc EXCEPT ![s] = "busy"]
    /\ UNCHANGED <<user_connections, room_connections, job_connections,
                   chat_connections, connection_users, heartbeat_tasks, sock,
                   subscribes, unsubscribe_errors, jobVars, auxVars>>

\* for connection in disconnected: self.disconnect(connection)
RECURSIVE DisconnectAll(_, _)
DisconnectAll(list, gone) ==
    IF gone = <<>> THEN list
    ELSE DisconnectAll(ConnectionManager_disconnect(list, Head(gone)), Tail(gone))

\* ConnectionManager.broadcast, one turn of `for connection in
\* self.active_connections` up to its await: the list iterator takes the
\* element at its index of the list as it is now.  A connection whose
\* application_state is CONNECTED is sent to (the coroutine is suspended in
\* send_text), another one is noted in `disconnected`.  When the iterator is
\* exhausted the noted connections are removed from the list and the call
\* returns to its caller (its slot is free again).
broadcast_next(b) ==
    /\ broadcasts[b].pc = "iter"
    /\ LET r == broadcasts[b]
           list == ActiveConnections(b)
       IN  IF r.idx < Len(list)
           THEN LET conn == list[r.idx + 1] IN
                /\ broadcasts' = [broadcasts EXCEPT ![b] =
                      IF sock[conn] \in {"connected", "dropped"}
                      THEN [r EXCEPT !.idx = @ + 1, !.cur = conn, !.pc = "send"]
                      ELSE [r EXCEPT !.idx = @ + 1,
                                     !.disconnected = Append(@, conn)]]
                /\ UNCHANGED <<user_connections, room_connections,
                               job_connections, chat_connections, sockpc>>
           ELSE LET newlist == DisconnectAll(list, r.disconnected)
                    done == [broadcasts EXCEPT ![b] = NoBroadcast]
                IN  /\ IF r.orphan
                       THEN /\ broadcasts' = done
                            /\ UNCHANGED <<user_connections, room_connections,
                                           job_connections, chat_connections>>
                       ELSE /\ broadcasts' =
                                  Tracked(done, r.kind, r.id, newlist, FALSE)
                            /\ SetRegistry(r.kind,
                                   Put(Registry(r.kind), r.id, newlist))
                    /\ sockpc' = IF r.owner # 0
                                 THEN [sockpc EXCEPT ![r.owner] = "loop"]
                                 ELSE sockpc
    /\ UNCHANGED <<connection_users, heartbeat_tasks, sock,
                   subscribes, unsubscribe_errors, jobVars, auxVars>>

\* ConnectionManager.broadcast lines 56-61: send_text returns, and the
\* connection has the message, or raises, and the connection is noted in
\* `disconnected`
broadcast_sent(b) ==
    /\ broadcasts[b].pc = "send"
    /\ broadcasts' = [broadcasts EXCEPT ![b] =
          IF sock[@.cur] = "connected"
          THEN [@ EXCEPT !.pc = "iter", !.cur = 0,
                         !.delivered = Append(@, broadcasts[b].cur)]
          ELSE [@ EXCEPT !.pc = "iter", !.cur = 0,
                         !.disconnected = Append(@, broadcasts[b].cur)]]
    /\ UNCHANGED <<user_connections, room_connections, job_connections,
                   chat_connections, connection_users, heartbeat_tasks, sock,
                   sockpc, subscribes, unsubscribe_errors, jobVars, auxVars>>

\* every active_connections list of the registry that holds websocket s
Memberships(s) ==
    {<<kind, id>> \in Kinds \X (Users \cup TargetIds) :
        id \in DOMAIN Registry(kind) /\ s \in Range(Registry(kind)[id])}

\* Registry(kind) in the next state
RegistryNext(kind) ==
    CASE kind = "user" -> user_connections'
      [] kind = "job" -> job_connections'
      [] kind = "chat" -> chat_connections'
      [] kind = "room" -> room_connections'

\* C9: when a broadcast that met a failing (or no longer connected)
\* connection returns, every other connection that was registered for the
\* target during the whole call has received the message, and the only
\* connections the call removed from the target's list are the failing ones.
C9_SendFailureIsolated ==
    [][\A b \in Broadcasts :
         (/\ broadcasts[b].pc = "iter" /\ broadcasts'[b].pc = "free"
          /\ broadcasts[b].disconnected # <<>>) =>
            /\ broadcasts[b].stayed \ Range(broadcasts[b].disconnected)
                  \subseteq Range(broadcasts[b].delivered)
            /\ ~broadcasts[b].orphan =>
                  Range(ActiveConnections(b))
                      \ Range(RegistryNext(broadcasts[b].kind)[broadcasts[b].id])
                  \subseteq Range(broadcasts[b].disconnected)]_vars

handle_unsubscription_rejected(s, kind, t) ==
    /\ sockpc[s] = "loop"
    /\ sock[s] = "connected"
    /\ kind \in {"job", "chat"}
    /\ <<s, kind, t>> \notin unsubscribe_errors
    /\ unsubscribe_errors' = unsubscribe_errors \cup {<<s, kind, t>>}
    /\ UNCHANGED <<user_connections, room_connections, job_connections,
                   chat_connections, connection_users, heartbeat_tasks, sock,
                   sockpc, broadcasts, subscribes, jobVars, auxVars>>

\* the list has the same websocket at two positions
HasDuplicate(list) ==
    \E i, k \in DOMAIN list : i # k /\ list[i] = list[k]

LeavesRoom(s, t) ==
    /\ sockpc[s] = "loop"
    /\ sock[s] = "connected"
    /\ t \in DOMAIN room_connections
    /\ s \in Range(room_connections[t])
    /\ room_connections' # room_connections
    /\ ListIn(room_connections', t)
          = ConnectionManager_disconnect(room_connections[t], s)

TaskUserId(j) == ((j - 1) % NumUsers) + 1

\* the attributes of a ProcessingJob instance that the model keeps
ProcessingJobAttributes == DOMAIN NewJob(DefaultMaxRetries) \ {"exists"}

\* check_document_status: a row that is missing gives {"success": False};
\* for a row that is there the dict is built from job.status.value and then
\* job.progress, an attribute ProcessingJob does not have (the column is
\* progress_percentage), so the task raises AttributeError.  The task then
\* ends through BaseTask.on_failure, which writes FAILED and error_message
\* (not completed_at) on the job named by kwargs["job_id"]: kw says whether
\* the caller passed job_id by keyword (no caller of this task is under src/).
check_document_status(j, kw) ==
    LET raised == jobs[j].exists /\ "progress" \notin ProcessingJobAttributes
    IN  /\ status_result' = [status_result EXCEPT ![j] =
              IF ~jobs[j].exists
              THEN [outcome |-> "not found", progress |-> 0]
              ELSE IF raised
              THEN [outcome |-> "AttributeError", progress |-> 0]
              ELSE [outcome |-> "returned", progress |-> jobs[j]["progress"]]]
        /\ jobs' = IF raised /\ kw
                   THEN [jobs EXCEPT
                            ![j].status = JobStatus.FAILED,
                            ![j].error_message = "AttributeError: progress"]
                   ELSE jobs
        /\ UNCHANGED <<epc, queue, published, deliveries, wpc, wjob, wfound,
                       percentage, wsVars, auxVars>>

\* C13: the step in which a run emits its event (the only emission the task
\* reaches is the 'failed' one of its except block) hands the event to the
\* fan-out: when the job's user or the job has registered connections, a
\* broadcast to them begins.
C13_EventReachesFanOut ==
    [][\A w \in Workers :
         (/\ wpc[w] = "except" /\ wpc'[w] = "ended" /\ wfound[w]
          /\ \/ ListIn(user_connections, TaskUserId(wjob[w])) # <<>>
             \/ ListIn(job_connections, wjob[w]) # <<>>) =>
            \E b \in Broadcasts :
                /\ broadcasts[b].pc = "free"
                /\ broadcasts'[b].pc = "iter"
                /\ \/ /\ broadcasts'[b].kind = "user"
                      /\ broadcasts'[b].id = TaskUserId(wjob[w])
                   \/ /\ broadcasts'[b].kind = "job"
                      /\ broadcasts'[b].id = wjob[w]]_vars

\* C20: the job-status query of a job that exists returns the progress that
\* is stored in the job's row (the progress of the last report of its run).
C20_StatusQueryReturnsStoredProgress ==
    \A j \in JobIds :
        (jobs[j].exists /\ status_result[j].outcome # "none") =>
            /\ status_result[j].outcome = "returned"
            /\ status_result[j].progress = jobs[j].progress_percentage

\* ------------------------------------ the methods of ProcessingJob (C15, C16)
\* percentages a caller passes to update_progress
PercentageChoices == {-50, 50, 150}

Min(a, b) == IF a < b THEN a ELSE b

Max(a, b) == IF a > b THEN a ELSE b

\* ProcessingJob.start_processing(worker_id): no test of the current status
start_processing(j, w) ==
    /\ jobs[j].exists
    /\ jobs' = [jobs EXCEPT ![j].status = JobStatus.RUNNING,
                            ![j].started_at = utcnow,
                            ![j].worker_id = w]
    /\ UNCHANGED <<epc, queue, published, deliveries, wpc, wjob, wfound,
                   status_result, percentage, wsVars, auxVars>>

\* ProcessingJob.complete_processing()
complete_processing(j) ==
    /\ jobs[j].exists
    /\ jobs' = [jobs EXCEPT ![j].status = JobStatus.COMPLETED,
                            ![j].completed_at = utcnow,
                            ![j].progress_percentage = 100]
    /\ UNCHANGED <<epc, queue, published, deliveries, wpc, wjob, wfound,
                   status_result, percentage, wsVars, auxVars>>

\* ProcessingJob.fail_processing(error_message)
fail_processing(j) ==
    /\ jobs[j].exists
    /\ jobs' = [jobs EXCEPT ![j].status = JobStatus.FAILED,
                            ![j].completed_at = utcnow,
                            ![j].error_message = "error"]
    /\ UNCHANGED <<epc, queue, published, deliveries, wpc, wjob, wfound,
                   status_result, percentage, wsVars, auxVars>>

\* update_progress storing the value as it is given
update_progress_unclamped(j, p) ==
    /\ jobs[j].exists
    /\ jobs' = [jobs EXCEPT ![j].progress_percentage = p]
    /\ percentage' = [percentage EXCEPT ![j] = p]
    /\ UNCHANGED <<epc, queue, published, deliveries, wpc, wjob, wfound,
                   status_result, wsVars, auxVars>>

\* ProcessingJob.update_progress(stage, percentage):
\* progress_percentage = min(max(percentage, 0.0), 100.0); the new value is
\* not compared with the stored one (current_stage is not modelled)
update_progress(j, p) ==
    /\ jobs[j].exists
    /\ jobs' = [jobs EXCEPT ![j].progress_percentage = Min(Max(p, 0), 100)]
    /\ percentage' = [percentage EXCEPT ![j] = p]
    /\ UNCHANGED <<epc, queue, published, deliveries, wpc, wjob, wfound,
                   status_result, wsVars, auxVars>>

C16_ProgressNeverDecreases ==
    [][\A j \in JobIds :
         (/\ jobs[j].status = JobStatus.RUNNING
          /\ jobs'[j].status = JobStatus.RUNNING) =>
            jobs'[j].progress_percentage >= jobs[j].progress_percentage]_vars

\* ------------------------------------------------ the job row (C17-C19)
\* C17: a job that is Completed or Failed has completed_at set, and a job
\* that is Queued or Running has completed_at null.
C17_CompletedAtIffTerminal ==
    \A j \in JobIds :
        jobs[j].exists =>
            /\ jobs[j].status \in {JobStatus.COMPLETED, JobStatus.FAILED}
                  => jobs[j].completed_at # 0
            /\ jobs[j].status \in {JobStatus.QUEUED, JobStatus.RUNNING}
                  => jobs[j].completed_at = 0

\* C18: every process_document message, in the queue or being run by a
\* worker, names a job whose row exists.
C18_MessagesNameExistingJobs ==
    \A j \in JobIds :
        (queue[j] > 0 \/ \E w \in Workers : wpc[w] # "idle" /\ wjob[w] = j)
            => jobs[j].exists

\* C18 witness: a message waits for a job that was written, and a request
\* whose job could not be written has left no row and no message
C18_Witness ==
    \E j, k \in JobIds :
        /\ jobs[j].exists /\ queue[j] > 0
        /\ epc[k] = "create failed" /\ ~jobs[k].exists /\ queue[k] = 0

\* C19: a worker step that changes a job's row is made by the worker named
\* in the row's worker_id.
C19_OnlyHolderWrites ==
    [][\A w \in Workers :
         (/\ wpc[w] # "idle" /\ wpc'[w] # wpc[w]
          /\ jobs'[wjob[w]] # jobs[wjob[w]]) =>
            jobs[wjob[w]].worker_id = w]_vars

\* ------------------------------------------- the failure path of a job (C21)
\* C21: a job that ends Failed has its error message stored, a status query
\* of it returns the failed status with that message, and the step that
\* marks it Failed begins a 'failed' broadcast to the registered connections
\* of its owner or of the job.
C21_FailureIsReported ==
    /\ [](\A j \in JobIds :
            jobs[j].status = JobStatus.FAILED =>
                /\ jobs[j].error_message # ""
                /\ status_result[j].outcome \in {"none", "returned"})
    /\ [][\A j \in JobIds :
            (/\ jobs[j].status # JobStatus.FAILED
             /\ jobs'[j].status = JobStatus.FAILED
             /\ \/ ListIn(user_connections, TaskUserId(j)) # <<>>
                \/ ListIn(job_connections, j) # <<>>) =>
                \E b \in Broadcasts :
                    /\ broadcasts[b].pc = "free"
                    /\ broadcasts'[b].pc = "iter"
                    /\ broadcasts'[b].id \in {TaskUserId(j), j}]_vars

\* ------------------------------------------------ text analysis (C22, C26)
\* A text is a sequence of sentences and a sentence a sequence of words; one
\* word stands for one character of len(text).  The texts hold nothing that
\* clean_text removes.
Words == {"data", "the"}

\* stopwords.words('english'), as far as Words goes
stop_words == {"the"}

Sentences == UNION {[1..n -> Words] : n \in 1..MaxWords}

Texts == UNION {[1..n -> Sentences] : n \in 0..MaxSentences}

RECURSIVE Flatten(_)
Flatten(text) ==
    IF text = <<>> THEN <<>> ELSE Head(text) \o Flatten(Tail(text))

\* clean_text: whitespace, special characters, URLs and addresses go
clean_text(text) == text

\* extract_sentences: the non-blank sentences of sent_tokenize
extract_sentences(text) == text

\* tokenize_text: the words that are alphabetic and no stop words
tokenize_text(text) ==
    SelectSeq(Flatten(text), LAMBDA word : word \notin stop_words)

\* process_text with the analyses of its default options, whose own results
\* are left out: each of them catches what it raises.  `raises` says that
\* the tokenizers raise (their NLTK data is not installed), which the
\* function turns into success False.  The average is the integer part of
\* the quotient.
process_text(text, raises) ==
    LET cleaned_text == clean_text(text)
        sentences == extract_sentences(cleaned_text)
        tokens == tokenize_text(cleaned_text)
    IN  IF raises
        THEN [processed_at |-> utcnow,
              original_length |-> Len(Flatten(text)),
              cleaned_text |-> cleaned_text,
              cleaned_length |-> Len(Flatten(cleaned_text)),
              success |-> FALSE,
              error |-> "LookupError"]
        ELSE [processed_at |-> utcnow,
              original_length |-> Len(Flatten(text)),
              cleaned_text |-> cleaned_text,
              cleaned_length |-> Len(Flatten(cleaned_text)),
              sentence_count |-> Len(sentences),
              word_count |-> Len(tokens),
              unique_words |-> Cardinality(Range(tokens)),
              avg_sentence_length |->
                  IF sentences # <<>> THEN Len(tokens) \div Len(sentences)
                  ELSE 0,
              success |-> TRUE]

\* process_document, lines 88-95: the text of a text document is its file,
\* decoded; a file of 0 bytes gives the empty text.  Nothing is analysed yet.
extract_text(text) ==
    /\ text_content' = text
    /\ processing_results' = NoResults
    /\ UNCHANGED <<jobVars, wsVars, hbVars, authVars>>

\* TextProcessor.process_text applied to the extracted text
process_text_call(raises) ==
    /\ processing_results' = process_text(text_content, raises)
    /\ UNCHANGED <<text_content, jobVars, wsVars, hbVars, authVars>>

\* C22: the analysis of the empty text (a file of 0 bytes) succeeds and its
\* result carries lowQualityWarning = true.
C22_EmptyTextFlaggedLowQuality ==
    ("processed_at" \in DOMAIN processing_results /\ text_content = <<>>) =>
        /\ processing_results.success
        /\ "lowQualityWarning" \in DOMAIN processing_results
        /\ processing_results.lowQualityWarning

\* ------------------------------------------------------ the heartbeat (C23)
\* WebSocketManager._heartbeat, one tick of the task that connect_user
\* created for websocket s: after the sleep it sends a heartbeat.  When the
\* client is there the send succeeds and the loop goes on.  When the client
\* has gone application_state is still CONNECTED, send_json raises, the
\* error is logged and the loop breaks: the task returns.  It removes the
\* websocket from nothing.
_heartbeat(s) ==
    /\ s \in heartbeat_tasks
    /\ s \notin heartbeat_ended
    /\ heartbeat_ended' = IF sock[s] = "connected" THEN heartbeat_ended
                          ELSE heartbeat_ended \cup {s}
    /\ UNCHANGED <<jobVars, wsVars, textVars, authVars>>

Emails == {"a@x.io", "A@x.io"}

\* str.lower() on Emails
lower(email) == IF email = "A@x.io" THEN "a@x.io" ELSE email

UserStatus == [PENDING |-> "pending", ACTIVE |-> "active"]

\* the users row with address `email`, 0 if there is none
UserByEmail(email) ==
    IF \E i \in DOMAIN users : users[i].email = email
    THEN CHOOSE i \in DOMAIN users : users[i].email = email
    ELSE 0

\* create_refresh_token followed by create_session: a new token whose "sub"
\* is the user, and an active session row that holds it
CreateSession(u) ==
    /\ issued' = Append(issued, u)
    /\ sessions' = Append(sessions, [user_id |-> u,
                                     refresh_token |-> Len(issued) + 1,
                                     is_active |-> TRUE])

\* POST /auth/register up to the SELECT of register_user: the terms must be
\* accepted (400), address and password must be valid (400), and no user
\* with the lower-cased address may exist (409).  The request then waits in
\* its awaits before it inserts.
register_check(r, email, accept_terms, valid) ==
    /\ reg[r].pc = "new"
    /\ reg' = [reg EXCEPT ![r] =
          IF ~accept_terms \/ ~valid
          THEN [@ EXCEPT !.pc = "done", !.email = email, !.status_code = 400]
          ELSE IF UserByEmail(lower(email)) # 0
          THEN [@ EXCEPT !.pc = "done", !.email = email, !.status_code = 409]
          ELSE [@ EXCEPT !.pc = "checked", !.email = email]]
    /\ UNCHANGED <<users, sessions, issued, logins, forgot_responses,
                   refresh_result, refresh_calls, jobVars, wsVars, textVars,
                   hbVars>>

\* register_user from db.add to its return, and the endpoint's answer.  The
\* users.email column is unique: the commit of a row whose address exists
\* by now raises IntegrityError, which the endpoint's `except Exception`
\* turns into 500.  Otherwise the user exists from the commit on; the mail
\* service or the event service may raise (500), the first before tokens
\* and session are created, the second after.
register_commit(r, raised_at) ==
    /\ reg[r].pc = "checked"
    /\ raised_at \in {"none", "send_verification_email", "track_event"}
    /\ IF UserByEmail(lower(reg[r].email)) # 0
       THEN /\ reg' = [reg EXCEPT ![r].pc = "done", ![r].status_code = 500]
            /\ UNCHANGED <<users, sessions, issued>>
       ELSE LET u == Len(users) + 1 IN
            /\ users' = Append(users, [email |-> lower(reg[r].email),
                                       status |-> UserStatus.PENDING,
                                       password_reset_token |-> FALSE])
            /\ IF raised_at = "send_verification_email"
               THEN /\ reg' = [reg EXCEPT ![r].pc = "done",
                                          ![r].status_code = 500,
                                          ![r].user = u]
                    /\ UNCHANGED <<sessions, issued>>
               ELSE /\ CreateSession(u)
                    /\ reg' = [reg EXCEPT
                          ![r].pc = "done",
                          ![r].status_code =
                              IF raised_at = "none" THEN 201 ELSE 500,
                          ![r].user = u,
                          ![r].session = Len(sessions) + 1]
    /\ UNCHANGED <<logins, forgot_responses, refresh_result, refresh_calls,
                   jobVars, wsVars, textVars, hbVars>>

\* C24: no two users have the same address, and a registration that finds
\* (at its check or at its commit) that another one has taken its address
\* is answered 400 or 409 and has created no user and no session.
C24_OneUserPerEmail ==
    /\ \A i, k \in DOMAIN users :
          lower(users[i].email) = lower(users[k].email) => i = k
    /\ \A r \in Requests :
          (/\ reg[r].pc = "done"
           /\ reg[r].user = 0
           /\ \E q \in Requests \ {r} :
                 /\ reg[q].user # 0
                 /\ lower(reg[q].email) = lower(reg[r].email)) =>
              /\ reg[r].status_code \in {400, 409}
              /\ reg[r].session = 0

\* ------------------------------------------------- forgot-password (C25)
\* POST /auth/forgot-password answered 500 when request_password_reset
\* raises
forgot_password_reraises(email, raised) ==
    LET u == UserByEmail(lower(email))
        case == IF raised THEN "raised"
                ELSE IF u = 0 THEN "missing" ELSE "existing"
    IN  /\ users' = IF u = 0 THEN users
                    ELSE [users EXCEPT ![u].password_reset_token = TRUE]
        /\ forgot_responses' = [forgot_responses EXCEPT ![case] =
              IF raised
              THEN [status_code |-> 500, success |-> FALSE,
                    message |-> "Password reset request failed"]
              ELSE [status_code |-> 200, success |-> TRUE,
                    message |-> "If an account exists"]]
        /\ UNCHANGED <<sessions, issued, reg, logins, refresh_result,
                       refresh_calls, jobVars, wsVars, textVars, hbVars>>

\* POST /auth/forgot-password with request_password_reset: no user with the
\* lower-cased address, and the service returns; a user, and it stores a
\* reset token, commits, and mails it.  `raised` says that the mail or the
\* event service raises after the commit; the endpoint's `except Exception`
\* returns the message of the successful case.
forgot_password(email, raised) ==
    LET u == UserByEmail(lower(email))
        case == IF raised THEN "raised"
                ELSE IF u = 0 THEN "missing" ELSE "existing"
    IN  /\ users' = IF u = 0 THEN users
                    ELSE [users EXCEPT ![u].password_reset_token = TRUE]
        /\ forgot_responses' = [forgot_responses EXCEPT ![case] =
              IF raised
              THEN [status_code |-> 200, success |-> TRUE,
                    message |-> "If an account exists"]
              ELSE [status_code |-> 200, success |-> TRUE,
                    message |-> "If an account exists"]]
        /\ UNCHANGED <<sessions, issued, reg, logins, refresh_result,
                       refresh_calls, jobVars, wsVars, textVars, hbVars>>

\* C25: every answer of forgot-password is the same success response,
\* whether the account exists, does not exist, or the processing raised.
C25_ForgotPasswordSameResponse ==
    \A c, d \in ForgotCases :
        (forgot_responses[c] # NoResponse /\ forgot_responses[d] # NoResponse)
            => /\ forgot_responses[c] = forgot_responses[d]
               /\ forgot_responses[c].status_code = 200
               /\ forgot_responses[c].success

\* forgot-password has been answered for a missing account, for an existing
\* one, and after its processing raised
C25_Witness ==
    \A c \in ForgotCases : forgot_responses[c] # NoResponse

\* ------------------------------------------------ sessions and tokens (C30)
\* the active sessions of user u are deactivated
Deactivated(u) ==
    [i \in DOMAIN sessions |->
        IF sessions[i].user_id = u /\ sessions[i].is_active
        THEN [sessions[i] EXCEPT !.is_active = FALSE]
        ELSE sessions[i]]

\* login_user with the user's password: a pending account becomes active, a
\* refresh token is created and a session that holds it
login_user(u) ==
    /\ u \in DOMAIN users
    /\ logins < MaxLogins
    /\ logins' = logins + 1
    /\ users' = [users EXCEPT ![u].status = UserStatus.ACTIVE]
    /\ CreateSession(u)
    /\ UNCHANGED <<reg, forgot_responses, refresh_result, refresh_calls,
                   jobVars, wsVars, textVars, hbVars>>

\* POST /auth/logout of an authenticated user: logout_user without a
\* session token deactivates every active session of the user
logout_user(u) ==
    /\ u \in DOMAIN users
    /\ \E t \in DOMAIN issued : issued[t] = u
    /\ sessions' = Deactivated(u)
    /\ UNCHANGED <<users, issued, reg, logins, forgot_responses,
                   refresh_result, refresh_calls, jobVars, wsVars, textVars,
                   hbVars>>

\* reset_password with the user's reset token: the token is cleared, the
\* password replaced, and logout_user(db, user.id) deactivates the user's
\* sessions
reset_password(u) ==
    /\ u \in DOMAIN users
    /\ users[u].password_reset_token
    /\ users' = [users EXCEPT ![u].password_reset_token = FALSE]
    /\ sessions' = Deactivated(u)
    /\ UNCHANGED <<issued, reg, logins, forgot_responses, refresh_result,
                   refresh_calls, jobVars, wsVars, textVars, hbVars>>

\* refresh_access_token with a token that create_refresh_token made and
\* that has not expired: the token decodes, its type is "refresh", and the
\* user of its "sub" is looked up.  A user who is not active is rejected.
\* Otherwise new tokens are created; then the active session that holds
\* the old token, if there is one, gets the new one.  Whether such a
\* session exists does not decide the outcome.
refresh_access_token(t) ==
    /\ t \in DOMAIN issued
    /\ refresh_calls < MaxRefreshes
    /\ refresh_calls' = refresh_calls + 1
    /\ LET u == issued[t] IN
       IF users[u].status # UserStatus.ACTIVE
       THEN /\ refresh_result' = [token |-> t, outcome |-> "rejected"]
            /\ UNCHANGED <<issued, sessions>>
       ELSE /\ refresh_result' = [token |-> t, outcome |-> "issued"]
            /\ issued' = Append(issued, u)
            /\ sessions' = [i \in DOMAIN sessions |->
                  IF /\ sessions[i].user_id = u
                     /\ sessions[i].refresh_token = t
                     /\ sessions[i].is_active
                  THEN [sessions[i] EXCEPT !.refresh_token = Len(issued) + 1]
                  ELSE sessions[i]]
    /\ UNCHANGED <<users, reg, logins, forgot_responses, jobVars, wsVars,
                   textVars, hbVars>>

\* C30: a refresh token whose session has been deactivated (by a logout or
\* by a password reset) is rejected by refresh_access_token.
C30_RevokedRefreshTokenRejected ==
    [][\A t \in DOMAIN issued :
          (/\ refresh_calls' = refresh_calls + 1
           /\ refresh_result'.token = t
           /\ \E i \in DOMAIN sessions :
                 /\ sessions[i].refresh_token = t
                 /\ ~sessions[i].is_active) =>
              refresh_result'.outcome = "rejected"]_vars

\* --------------------------------------------- every job terminates (C27)
\* the statuses a job stays in
TerminalStatuses ==
    {JobStatus.COMPLETED, JobStatus.FAILED, JobStatus.CANCELLED}

\* C27: every job that has been created eventually has a terminal status
\* (or the run of the model has used up its deliveries, which a broker
\* does not).
C27_EveryJobEndsTerminal ==
    \A j \in JobIds :
        jobs[j].exists ~> \/ jobs[j].status \in TerminalStatuses
                          \/ deliveries = MaxDeliveries

\* ------------------------------------------- the maps of the registry (C28)
\* C28: a websocket is a key of connection_users with user u exactly when
\* it is on the active_connections list of u's manager, and the keys of
\* heartbeat_tasks are the keys of connection_users.
C28_RegistryMapsConsistent ==
    /\ \A s \in Sockets, u \in Users :
          (s \in DOMAIN connection_users /\ connection_users[s] = u)
              <=> (u \in DOMAIN user_connections
                   /\ s \in Range(user_connections[u]))
    /\ heartbeat_tasks = DOMAIN connection_users

\* ------------------------------- a disconnect during a broadcast (C29)
\* how often x is on the list
Count(list, x) == Cardinality({i \in DOMAIN list : list[i] = x})

\* C29: when a broadcast returns, every connection that was registered for
\* the target during the whole call (whatever other connections left in
\* the meantime), is on the list once and did not fail, has received the
\* message exactly once.
C29_DeliveredExactlyOnce ==
    [][\A b \in Broadcasts :
         (broadcasts[b].pc = "iter" /\ broadcasts'[b].pc = "free") =>
            \A s \in broadcasts[b].stayed \ Range(broadcasts[b].disconnected) :
                Count(ActiveConnections(b), s) = 1 =>
                    Count(broadcasts[b].delivered, s) = 1]_vars

NextWS ==
    \/ \E s \in Sockets, u \in Users, b \in Broadcasts, accepted \in BOOLEAN :
            connect_user(s, u, b, accepted)
    \/ \E s \in Sockets : client_disconnects(s)
    \/ \E s \in Sockets : disconnect_user(s)
    \/ \E s \in Sockets, kind \in Kinds, t \in TargetIds, accepted \in BOOLEAN :
            handle_subscription(s, kind, t, accepted)
    \/ \E s \in Sockets, t \in TargetIds : handle_unsubscription(s, t)
    \/ \E b \in Broadcasts, kind \in Kinds, t \in Users \cup TargetIds :
            publish(b, kind, t)
    \/ \E s \in Sockets, t \in TargetIds, b \in Broadcasts :
            handle_chat_message(s, t, b)
    \/ \E b \in Broadcasts : broadcast_next(b)
    \/ \E b \in Broadcasts : broadcast_sent(b)

NextJobs ==
    \/ \E j \in JobIds, mr \in MaxRetriesChoices : create_processing_job(j, mr)
    \/ \E j \in JobIds : apply_async(j)
    \/ \E j \in JobIds : apply_async_fails(j)
    \/ \E j \in JobIds : batch_process_documents(j)
    \/ \E j \in JobIds : cancel_job(j)
    \/ \E w \in Workers, j \in JobIds : deliver(w, j)
    \/ \E w \in Workers : process_document_start(w)
    \/ \E w \in Workers : process_document_except(w)
    \/ \E w \in Workers, acked \in BOOLEAN : on_failure(w, acked)
    \/ \E w \in Workers : worker_lost(w)

\* the subscription handlers of one endpoint, with the broadcasts they wait for
NextSubs ==
    \/ \E s \in Sockets, u \in Users, b \in Broadcasts, accepted \in BOOLEAN :
            connect_user(s, u, b, accepted)
    \/ \E s \in Sockets, kind \in Kinds, t \in TargetIds, accepted \in BOOLEAN :
            handle_subscription(s, kind, t, accepted)
    \/ \E s \in Sockets, t \in TargetIds : handle_unsubscription(s, t)
    \/ \E s \in Sockets, kind \in Kinds, t \in TargetIds :
            handle_unsubscription_rejected(s, kind, t)
    \/ \E b \in Broadcasts, kind \in Kinds, t \in Users \cup TargetIds :
            publish(b, kind, t)
    \/ \E b \in Broadcasts : broadcast_next(b)
    \/ \E b \in Broadcasts : broadcast_sent(b)

\* the endpoints that create and publish jobs, and the runs of the messages
NextPublish ==
    \/ \E j \in JobIds : create_processing_job(j, DefaultMaxRetries)
    \/ \E j \in JobIds : create_processing_job_fails(j)
    \/ \E j \in JobIds : apply_async(j)
    \/ \E j \in JobIds : apply_async_fails(j)
    \/ \E j \in JobIds : batch_process_documents(j)
    \/ \E w \in Workers, j \in JobIds : deliver(w, j)
    \/ \E w \in Workers : process_document_start(w)
    \/ \E w \in Workers : process_document_except(w)
    \/ \E w \in Workers, acked \in BOOLEAN : on_failure(w, acked)

\* one job, run by one worker, and one connection of its user
NextEvents ==
    \/ \E mr \in MaxRetriesChoices : create_processing_job(1, mr)
    \/ apply_async(1)
    \/ deliver(1, 1)
    \/ process_document_start(1)
    \/ process_document_except(1)
    \/ \E acked \in BOOLEAN : on_failure(1, acked)
    \/ \E kw \in BOOLEAN : check_document_status(1, kw)
    \/ \E accepted \in BOOLEAN : connect_user(1, TaskUserId(1), 1, accepted)
    \/ \E accepted \in BOOLEAN : handle_subscription(1, "job", 1, accepted)
    \/ broadcast_next(1)
    \/ broadcast_sent(1)

\* the methods of ProcessingJob called on rows that exist
\* one connection per user, subscribed to jobs, with its heartbeat
NextHeartbeat ==
    \/ \E s \in Sockets, accepted \in BOOLEAN :
          connect_user(s, 1, 1, accepted)
    \/ \E s \in Sockets, t \in TargetIds, accepted \in BOOLEAN :
          handle_subscription(s, "job", t, accepted)
    \/ \E s \in Sockets : client_disconnects(s)
    \/ \E s \in Sockets : disconnect_user(s)
    \/ \E s \in Sockets : _heartbeat(s)
    \/ broadcast_next(1)
    \/ broadcast_sent(1)

\* the tasks of the event loop run: a heartbeat ticks, an endpoint whose
\* receive raised reaches its finally clause, a broadcast goes on
FairHeartbeat ==
    /\ \A s \in Sockets : WF_vars(_heartbeat(s))
    /\ \A s \in Sockets : WF_vars(disconnect_user(s))
    /\ WF_vars(broadcast_next(1))
    /\ WF_vars(broadcast_sent(1))

NextRegister ==
    \/ \E r \in Requests, email \in Emails, accept_terms, valid \in BOOLEAN :
          register_check(r, email, accept_terms, valid)
    \/ \E r \in Requests,
          raised_at \in {"none", "send_verification_email", "track_event"} :
          register_commit(r, raised_at)

NextForgot ==
    \/ \E r \in Requests, email \in Emails :
          register_check(r, email, TRUE, TRUE)
    \/ \E r \in Requests,
          raised_at \in {"none", "send_verification_email", "track_event"} :
          register_commit(r, raised_at)
    \/ \E email \in Emails, raised \in BOOLEAN :
          forgot_password(email, raised)

\* one registration, then logins, logouts, resets and refreshes
NextSessions ==
    \/ \E email \in Emails : register_check(1, email, TRUE, TRUE)
    \/ \E raised_at \in {"none", "send_verification_email", "track_event"} :
          register_commit(1, raised_at)
    \/ \E u \in 1..NumRequests : login_user(u)
    \/ \E u \in 1..NumRequests : logout_user(u)
    \/ \E email \in Emails : forgot_password(email, FALSE)
    \/ \E u \in 1..NumRequests : reset_password(u)
    \/ \E t \in 1..(NumRequests + MaxLogins + MaxRefreshes) :
          refresh_access_token(t)

\* jobs that are created, published once each, and run
NextLive ==
    \/ \E j \in JobIds : create_processing_job(j, DefaultMaxRetries)
    \/ \E j \in JobIds : apply_async(j)
    \/ \E j \in JobIds : apply_async_fails(j)
    \/ \E w \in Workers, j \in JobIds : deliver(w, j)
    \/ \E w \in Workers : process_document_start(w)
    \/ \E w \in Workers : process_document_except(w)
    \/ \E w \in Workers, acked \in BOOLEAN : on_failure(w, acked)
    \/ \E w \in Workers : worker_lost(w)

\* an endpoint that has written the row goes on to its apply_async, which
\* returns or raises; the broker delivers a queued message to an idle
\* worker; a worker that has a task goes on with it.  Nothing obliges a
\* client to send a request or a worker process to die.
FairLive ==
    /\ \A j \in JobIds : WF_vars(apply_async(j) \/ apply_async_fails(j))
    /\ \A j \in JobIds : WF_vars(\E w \in Workers : deliver(w, j))
    /\ \A w \in Workers : WF_vars(process_document_start(w))
    /\ \A w \in Workers : WF_vars(process_document_except(w))
    /\ \A w \in Workers : WF_vars(\E acked \in BOOLEAN : on_failure(w, acked))

NextText ==
    \/ \E text \in Texts : extract_text(text)
    \/ \E raises \in BOOLEAN : process_text_call(raises)

NextMethods ==
    \/ \E j \in JobIds : create_processing_job(j, DefaultMaxRetries)
    \/ \E j \in JobIds : start_processing(j, 1)
    \/ \E j \in JobIds, p \in PercentageChoices : update_progress(j, p)
    \/ \E j \in JobIds : complete_processing(j)
    \/ \E j \in JobIds : fail_processing(j)

Next ==
    \/ NextJobs
    \/ NextPublish
    \/ NextWS
    \/ NextSubs
    \/ NextEvents
    \/ NextMethods
    \/ NextText
    \/ NextLive
    \/ NextSessions
    \/ NextForgot
    \/ NextRegister
    \/ NextHeartbeat

SpecJobs == Init /\ [][NextJobs]_vars

SpecPublish == Init /\ [][NextPublish]_vars

SpecWS == Init /\ [][NextWS]_vars

SpecSubs == Init /\ [][NextSubs]_vars

SpecEvents == Init /\ [][NextEvents]_vars

SpecHeartbeat == Init /\ [][NextHeartbeat]_vars /\ FairHeartbeat

SpecRegister == Init /\ [][NextRegister]_vars

SpecForgot == Init /\ [][NextForgot]_vars

SpecSessions == Init /\ [][NextSessions]_vars

SpecLive == Init /\ [][NextLive]_vars /\ FairLive

SpecText == Init /\ [][NextText]_vars

SpecMethods == Init /\ [][NextMethods]_vars

Spec == Init /\ [][Next]_vars
====
